---------------------------- MODULE Spec2Model ----------------------------
(***************************************************************************)
(* DOMProperty.js and DOMMarkupOperations.js: the property registry and    *)
(* its injection, the name resolver, the value classifier, the attribute-  *)
(* name validator with its two caches, the markup generator, and the       *)
(* mutation override of the `value` property.                              *)
(*                                                                         *)
(* A JavaScript string is the sequence of its UTF-16 code units, so that   *)
(* name[0], toLowerCase(), slice(), the CAMELIZE replacement and the       *)
(* character classes of VALID_ATTRIBUTE_NAME_REGEX are computed on the     *)
(* characters. Every literal below carries its text in a comment.          *)
(***************************************************************************)
EXTENDS Integers, Sequences, FiniteSets, TLC

VARIABLES
  properties,                   \* DOMProperty.properties: own key -> PropertyInfo
  validatedAttributeNameCache,  \* own keys of validatedAttributeNameCache
  illegalAttributeNameCache,    \* own keys of illegalAttributeNameCache
  node,                         \* the DOM node setDOMValueAttribute works on
  regexTests,                   \* name -> times VALID_ATTRIBUTE_NAME_REGEX.test ran on it
  firstVerdict,                 \* name -> outcome of the first isAttributeNameSafe(name)
  call                          \* the call that has just ended, or Idle

vars == <<properties, validatedAttributeNameCache, illegalAttributeNameCache,
          node, regexTests, firstVerdict, call>>

-----------------------------------------------------------------------------
(* JavaScript values, by runtime type (typeof), and the outcome of a call. *)

JSNull == [t |-> "null"]
JSUndefined == [t |-> "undefined"]
JSBool(b) == [t |-> "boolean", b |-> b]
JSNumber(n) == [t |-> "number", n |-> n]
JSNaN == [t |-> "number", nan |-> TRUE]
JSString(s) == [t |-> "string", s |-> s]
JSObject == [t |-> "object"]
JSFunction == [t |-> "function"]
JSSymbol == [t |-> "symbol"]

Return(v) == [k |-> "return", v |-> v]
Throw(e) == [k |-> "throw", e |-> e]
IsThrow(o) == o.k = "throw"

TypeError == "TypeError"
InvariantAlreadyInjected == "Invariant: already been injected"
InvariantCombination == "Invariant: not a combination"

(* obj.hasOwnProperty(key) on a plain object used as a dictionary. The     *)
(* method is looked up on the object first: an own key 'hasOwnProperty'    *)
(* shadows Object.prototype.hasOwnProperty, and the dictionaries here hold *)
(* descriptors or `true`, never a function, so the call then throws.       *)
hasOwnPropertyName == <<104,97,115,79,119,110,80,114,111,112,101,114,116,121>>  \* 'hasOwnProperty'
protoName == <<95,95,112,114,111,116,111,95,95>>  \* '__proto__'

HasOwnProperty(obj, key) ==
  IF hasOwnPropertyName \in DOMAIN obj
    THEN Throw(TypeError)
    ELSE Return(JSBool(key \in DOMAIN obj))

(* obj[key] = val. The key '__proto__' reaches the accessor of             *)
(* Object.prototype: it sets the prototype (val an object) or does nothing *)
(* (val a primitive) and creates no own key. No operation here reads a     *)
(* dictionary's prototype chain past hasOwnProperty, so the prototype is   *)
(* not part of the state.                                                  *)
PutOwn(obj, key, val) ==
  IF key = protoName
    THEN obj
    ELSE [x \in DOMAIN obj \cup {key} |-> IF x = key THEN val ELSE obj[x]]

EmptyObject == [x \in {} |-> TRUE]

-----------------------------------------------------------------------------
(* String helpers: String.prototype.toLowerCase and slice, on code units   *)
(* up to U+00FF (ASCII and Latin-1 upper case letters map 32 up).          *)

LowerChar(c) ==
  IF (c >= 65 /\ c <= 90) \/ (c >= 192 /\ c <= 214) \/ (c >= 216 /\ c <= 222)
    THEN c + 32
    ELSE c

toLowerCase(s) == [i \in 1..Len(s) |-> LowerChar(s[i])]

UpperChar(c) == IF c >= 97 /\ c <= 122 THEN c - 32 ELSE c

Slice(s, from, to) == SubSeq(s, from + 1, IF to < Len(s) THEN to ELSE Len(s))

-----------------------------------------------------------------------------
(* DOMProperty.js                                                          *)

RESERVED_PROPS ==
  { <<99,104,105,108,100,114,101,110>>,                        \* 'children'
    <<100,97,110,103,101,114,111,117,115,108,121,83,101,116,73,110,110,101,114,72,84,77,76>>,         \* 'dangerouslySetInnerHTML'
    <<97,117,116,111,70,111,99,117,115>>,                       \* 'autoFocus'
    <<100,101,102,97,117,108,116,86,97,108,117,101>>,                    \* 'defaultValue'
    <<100,101,102,97,117,108,116,67,104,101,99,107,101,100>>,                  \* 'defaultChecked'
    <<105,110,110,101,114,72,84,77,76>>,                       \* 'innerHTML'
    <<115,117,112,112,114,101,115,115,67,111,110,116,101,110,116,69,100,105,116,97,98,108,101,87,97,114,110,105,110,103>>,  \* 'suppressContentEditableWarning'
    <<115,116,121,108,101>> }                          \* 'style'

RECURSIVE BitAnd(_, _)
BitAnd(a, b) ==
  IF a = 0 \/ b = 0
    THEN 0
    ELSE (a % 2) * (b % 2) + 2 * BitAnd(a \div 2, b \div 2)

checkMask(value, bitmask) == BitAnd(value, bitmask) = bitmask

MUST_USE_PROPERTY == 1
HAS_BOOLEAN_VALUE == 4
HAS_NUMERIC_VALUE == 8
HAS_POSITIVE_NUMERIC_VALUE == 24
HAS_OVERLOADED_BOOLEAN_VALUE == 32
HAS_STRING_BOOLEAN_VALUE == 64

PropertyInfoOf(propConfig) ==
  [ mustUseProperty |-> checkMask(propConfig, MUST_USE_PROPERTY),
    hasBooleanValue |-> checkMask(propConfig, HAS_BOOLEAN_VALUE),
    hasNumericValue |-> checkMask(propConfig, HAS_NUMERIC_VALUE),
    hasPositiveNumericValue |-> checkMask(propConfig, HAS_POSITIVE_NUMERIC_VALUE),
    hasOverloadedBooleanValue |-> checkMask(propConfig, HAS_OVERLOADED_BOOLEAN_VALUE),
    hasStringBooleanValue |-> checkMask(propConfig, HAS_STRING_BOOLEAN_VALUE) ]

B2N(b) == IF b THEN 1 ELSE 0

(* The combination test without its hasOverloadedBooleanValue term. *)
ModeCountOkWithoutOverloaded(propertyInfo) ==
  B2N(propertyInfo.hasBooleanValue) + B2N(propertyInfo.hasNumericValue) <= 1

(* hasBooleanValue + hasNumericValue + hasOverloadedBooleanValue <= 1 *)
ModeCountOk(propertyInfo) ==
  B2N(propertyInfo.hasBooleanValue) + B2N(propertyInfo.hasNumericValue)
    + B2N(propertyInfo.hasOverloadedBooleanValue) <= 1

(* One pass of the body of `for (var propName in Properties)`, for the     *)
(* entry (name, bitmask): an invariant() that fails throws, and nothing is *)
(* stored for the entry.                                                   *)
InjectEntry(props, entry) ==
  LET propName == entry.name
      has == HasOwnProperty(props, propName)
      propertyInfo == PropertyInfoOf(entry.mask)
  IN  IF IsThrow(has)
        THEN [properties |-> props, outcome |-> has]
      ELSE IF has.v.b
        THEN [properties |-> props, outcome |-> Throw(InvariantAlreadyInjected)]
      ELSE IF ~ModeCountOk(propertyInfo)
        THEN [properties |-> props, outcome |-> Throw(InvariantCombination)]
      ELSE [properties |-> PutOwn(props, propName, propertyInfo),
            outcome |-> Return(JSUndefined)]

(* The loop over the entries lo..hi of the config's Properties (the        *)
(* sequence of its entries in enumeration order), from the registry and    *)
(* outcome `acc` the entries before lo left. A throw ends the loop: the    *)
(* entries stored before it stay stored. The range is walked in halves,    *)
(* left before right, which is the loop's order.                           *)
RECURSIVE InjectRange(_, _, _, _)
InjectRange(acc, Properties, lo, hi) ==
  IF IsThrow(acc.outcome) \/ lo > hi
    THEN acc
  ELSE IF lo = hi
    THEN InjectEntry(acc.properties, Properties[lo])
  ELSE InjectRange(InjectRange(acc, Properties, lo, (lo + hi) \div 2),
                   Properties, (lo + hi) \div 2 + 1, hi)

injectDOMPropertyConfig(props, Properties) ==
  InjectRange([properties |-> props, outcome |-> Return(JSUndefined)],
              Properties, 1, Len(Properties))

(* var CAMELIZE = /[\-\:]([a-z])/g; capitalize = token => token[1].toUpperCase() *)
RECURSIVE CamelizeFrom(_, _)
CamelizeFrom(s, i) ==
  IF i > Len(s)
    THEN <<>>
  ELSE IF s[i] \in {45, 58} /\ i < Len(s) /\ s[i + 1] >= 97 /\ s[i + 1] <= 122
    THEN <<UpperChar(s[i + 1])>> \o CamelizeFrom(s, i + 2)
  ELSE <<s[i]>> \o CamelizeFrom(s, i + 1)

Camelize(s) == CamelizeFrom(s, 1)

svgAttributeNames ==
  <<
    <<97,99,99,101,110,116,45,104,101,105,103,104,116>>,  \* 'accent-height'
    <<97,108,105,103,110,109,101,110,116,45,98,97,115,101,108,105,110,101>>,  \* 'alignment-baseline'
    <<97,114,97,98,105,99,45,102,111,114,109>>,  \* 'arabic-form'
    <<98,97,115,101,108,105,110,101,45,115,104,105,102,116>>,  \* 'baseline-shift'
    <<99,97,112,45,104,101,105,103,104,116>>,  \* 'cap-height'
    <<99,108,105,112,45,112,97,116,104>>,  \* 'clip-path'
    <<99,108,105,112,45,114,117,108,101>>,  \* 'clip-rule'
    <<99,111,108,111,114,45,105,110,116,101,114,112,111,108,97,116,105,111,110>>,  \* 'color-interpolation'
    <<99,111,108,111,114,45,105,110,116,101,114,112,111,108,97,116,105,111,110,45,102,105,108,116,101,114,115>>,  \* 'color-interpolation-filters'
    <<99,111,108,111,114,45,112,114,111,102,105,108,101>>,  \* 'color-profile'
    <<99,111,108,111,114,45,114,101,110,100,101,114,105,110,103>>,  \* 'color-rendering'
    <<100,111,109,105,110,97,110,116,45,98,97,115,101,108,105,110,101>>,  \* 'dominant-baseline'
    <<101,110,97,98,108,101,45,98,97,99,107,103,114,111,117,110,100>>,  \* 'enable-background'
    <<102,105,108,108,45,111,112,97,99,105,116,121>>,  \* 'fill-opacity'
    <<102,105,108,108,45,114,117,108,101>>,  \* 'fill-rule'
    <<102,108,111,111,100,45,99,111,108,111,114>>,  \* 'flood-color'
    <<102,108,111,111,100,45,111,112,97,99,105,116,121>>,  \* 'flood-opacity'
    <<102,111,110,116,45,102,97,109,105,108,121>>,  \* 'font-family'
    <<102,111,110,116,45,115,105,122,101>>,  \* 'font-size'
    <<102,111,110,116,45,115,105,122,101,45,97,100,106,117,115,116>>,  \* 'font-size-adjust'
    <<102,111,110,116,45,115,116,114,101,116,99,104>>,  \* 'font-stretch'
    <<102,111,110,116,45,115,116,121,108,101>>,  \* 'font-style'
    <<102,111,110,116,45,118,97,114,105,97,110,116>>,  \* 'font-variant'
    <<102,111,110,116,45,119,101,105,103,104,116>>,  \* 'font-weight'
    <<103,108,121,112,104,45,110,97,109,101>>,  \* 'glyph-name'
    <<103,108,121,112,104,45,111,114,105,101,110,116,97,116,105,111,110,45,104,111,114,105,122,111,110,116,97,108>>,  \* 'glyph-orientation-horizontal'
    <<103,108,121,112,104,45,111,114,105,101,110,116,97,116,105,111,110,45,118,101,114,116,105,99,97,108>>,  \* 'glyph-orientation-vertical'
    <<104,111,114,105,122,45,97,100,118,45,120>>,  \* 'horiz-adv-x'
    <<104,111,114,105,122,45,111,114,105,103,105,110,45,120>>,  \* 'horiz-origin-x'
    <<105,109,97,103,101,45,114,101,110,100,101,114,105,110,103>>,  \* 'image-rendering'
    <<108,101,116,116,101,114,45,115,112,97,99,105,110,103>>,  \* 'letter-spacing'
    <<108,105,103,104,116,105,110,103,45,99,111,108,111,114>>,  \* 'lighting-color'
    <<109,97,114,107,101,114,45,101,110,100>>,  \* 'marker-end'
    <<109,97,114,107,101,114,45,109,105,100>>,  \* 'marker-mid'
    <<109,97,114,107,101,114,45,115,116,97,114,116>>,  \* 'marker-start'
    <<111,118,101,114,108,105,110,101,45,112,111,115,105,116,105,111,110>>,  \* 'overline-position'
    <<111,118,101,114,108,105,110,101,45,116,104,105,99,107,110,101,115,115>>,  \* 'overline-thickness'
    <<112,97,105,110,116,45,111,114,100,101,114>>,  \* 'paint-order'
    <<112,97,110,111,115,101,45,49>>,  \* 'panose-1'
    <<112,111,105,110,116,101,114,45,101,118,101,110,116,115>>,  \* 'pointer-events'
    <<114,101,110,100,101,114,105,110,103,45,105,110,116,101,110,116>>,  \* 'rendering-intent'
    <<115,104,97,112,101,45,114,101,110,100,101,114,105,110,103>>,  \* 'shape-rendering'
    <<115,116,111,112,45,99,111,108,111,114>>,  \* 'stop-color'
    <<115,116,111,112,45,111,112,97,99,105,116,121>>,  \* 'stop-opacity'
    <<115,116,114,105,107,101,116,104,114,111,117,103,104,45,112,111,115,105,116,105,111,110>>,  \* 'strikethrough-position'
    <<115,116,114,105,107,101,116,104,114,111,117,103,104,45,116,104,105,99,107,110,101,115,115>>,  \* 'strikethrough-thickness'
    <<115,116,114,111,107,101,45,100,97,115,104,97,114,114,97,121>>,  \* 'stroke-dasharray'
    <<115,116,114,111,107,101,45,100,97,115,104,111,102,102,115,101,116>>,  \* 'stroke-dashoffset'
    <<115,116,114,111,107,101,45,108,105,110,101,99,97,112>>,  \* 'stroke-linecap'
    <<115,116,114,111,107,101,45,108,105,110,101,106,111,105,110>>,  \* 'stroke-linejoin'
    <<115,116,114,111,107,101,45,109,105,116,101,114,108,105,109,105,116>>,  \* 'stroke-miterlimit'
    <<115,116,114,111,107,101,45,111,112,97,99,105,116,121>>,  \* 'stroke-opacity'
    <<115,116,114,111,107,101,45,119,105,100,116,104>>,  \* 'stroke-width'
    <<116,101,120,116,45,97,110,99,104,111,114>>,  \* 'text-anchor'
    <<116,101,120,116,45,100,101,99,111,114,97,116,105,111,110>>,  \* 'text-decoration'
    <<116,101,120,116,45,114,101,110,100,101,114,105,110,103>>,  \* 'text-rendering'
    <<117,110,100,101,114,108,105,110,101,45,112,111,115,105,116,105,111,110>>,  \* 'underline-position'
    <<117,110,100,101,114,108,105,110,101,45,116,104,105,99,107,110,101,115,115>>,  \* 'underline-thickness'
    <<117,110,105,99,111,100,101,45,98,105,100,105>>,  \* 'unicode-bidi'
    <<117,110,105,99,111,100,101,45,114,97,110,103,101>>,  \* 'unicode-range'
    <<117,110,105,116,115,45,112,101,114,45,101,109>>,  \* 'units-per-em'
    <<118,45,97,108,112,104,97,98,101,116,105,99>>,  \* 'v-alphabetic'
    <<118,45,104,97,110,103,105,110,103>>,  \* 'v-hanging'
    <<118,45,105,100,101,111,103,114,97,112,104,105,99>>,  \* 'v-ideographic'
    <<118,45,109,97,116,104,101,109,97,116,105,99,97,108>>,  \* 'v-mathematical'
    <<118,101,99,116,111,114,45,101,102,102,101,99,116>>,  \* 'vector-effect'
    <<118,101,114,116,45,97,100,118,45,121>>,  \* 'vert-adv-y'
    <<118,101,114,116,45,111,114,105,103,105,110,45,120>>,  \* 'vert-origin-x'
    <<118,101,114,116,45,111,114,105,103,105,110,45,121>>,  \* 'vert-origin-y'
    <<119,111,114,100,45,115,112,97,99,105,110,103>>,  \* 'word-spacing'
    <<119,114,105,116,105,110,103,45,109,111,100,101>>,  \* 'writing-mode'
    <<120,45,104,101,105,103,104,116>>,  \* 'x-height'
    <<120,108,105,110,107,58,97,99,116,117,97,116,101>>,  \* 'xlink:actuate'
    <<120,108,105,110,107,58,97,114,99,114,111,108,101>>,  \* 'xlink:arcrole'
    <<120,108,105,110,107,58,104,114,101,102>>,  \* 'xlink:href'
    <<120,108,105,110,107,58,114,111,108,101>>,  \* 'xlink:role'
    <<120,108,105,110,107,58,115,104,111,119>>,  \* 'xlink:show'
    <<120,108,105,110,107,58,116,105,116,108,101>>,  \* 'xlink:title'
    <<120,108,105,110,107,58,116,121,112,101>>,  \* 'xlink:type'
    <<120,109,108,58,98,97,115,101>>,  \* 'xml:base'
    <<120,109,108,110,115,58,120,108,105,110,107>>,  \* 'xmlns:xlink'
    <<120,109,108,58,108,97,110,103>>,  \* 'xml:lang'
    <<120,109,108,58,115,112,97,99,101>>  \* 'xml:space'
  >>

(* attributeNames as the literal of lines 142-147 leaves it. *)
attributeNamesLiteral ==
  ( <<97,99,99,101,112,116,67,104,97,114,115,101,116>> :> <<97,99,99,101,112,116,45,99,104,97,114,115,101,116>>  \* acceptCharset: 'accept-charset'
    @@ <<99,108,97,115,115,78,97,109,101>> :> <<99,108,97,115,115>>            \* className: 'class'
    @@ <<104,116,109,108,70,111,114>> :> <<102,111,114>>                \* htmlFor: 'for'
    @@ <<104,116,116,112,69,113,117,105,118>> :> <<104,116,116,112,45,101,113,117,105,118>> )     \* httpEquiv: 'http-equiv'

(* svgConfig as the literal of lines 153-159 leaves it. *)
svgConfigLiteral ==
  << [name |-> <<97,117,116,111,82,101,118,101,114,115,101>>, mask |-> HAS_STRING_BOOLEAN_VALUE],
     [name |-> <<101,120,116,101,114,110,97,108,82,101,115,111,117,114,99,101,115,82,101,113,117,105,114,101,100>>, mask |-> HAS_STRING_BOOLEAN_VALUE],
     [name |-> <<112,114,101,115,101,114,118,101,65,108,112,104,97>>, mask |-> HAS_STRING_BOOLEAN_VALUE] >>

(* The forEach of lines 258-265 writes, for the i-th list element,         *)
(* attributeNames[reactName] = svgAttributeName and                        *)
(* svgConfig.Properties[reactName] = 0. What the loop leaves: a key holds  *)
(* the value of the last write to it; a key written for the first time is  *)
(* appended to the object's enumeration order, a key the literal already   *)
(* holds keeps its place.                                                  *)
svgReactNames == [i \in 1..Len(svgAttributeNames) |-> Camelize(svgAttributeNames[i])]

svgWritten == { svgReactNames[i] : i \in DOMAIN svgReactNames } \ {protoName}

LastWrite(key) ==
  CHOOSE i \in DOMAIN svgReactNames :
    /\ svgReactNames[i] = key
    /\ \A j \in DOMAIN svgReactNames : svgReactNames[j] = key => j <= i

attributeNames ==
  [ key \in DOMAIN attributeNamesLiteral \cup svgWritten |->
      IF key \in svgWritten
        THEN svgAttributeNames[LastWrite(key)]
        ELSE attributeNamesLiteral[key] ]

svgFirstWrites ==
  { i \in DOMAIN svgReactNames :
      /\ svgReactNames[i] \in svgWritten
      /\ \A j \in 1..Len(svgConfigLiteral) : svgConfigLiteral[j].name # svgReactNames[i]
      /\ \A j \in 1..(i - 1) : svgReactNames[j] # svgReactNames[i] }

NthFirstWrite(k) ==
  CHOOSE i \in svgFirstWrites : Cardinality({ j \in svgFirstWrites : j <= i }) = k

svgConfig ==
  [ j \in 1..Len(svgConfigLiteral) |->
      IF svgConfigLiteral[j].name \in svgWritten
        THEN [name |-> svgConfigLiteral[j].name, mask |-> 0]
        ELSE svgConfigLiteral[j] ]
  \o [ k \in 1..Cardinality(svgFirstWrites) |->
         [name |-> svgReactNames[NthFirstWrite(k)], mask |-> 0] ]

(* DOMProperty.properties once line 415 has run. *)
LoadedProperties == injectDOMPropertyConfig(EmptyObject, svgConfig).properties


(* The keys of the DOMProperty object literal, lines 280-411. A call       *)
(* DOMProperty.m(...) for a key m that is not among them calls undefined.  *)
DOMPropertyMembers ==
  { "ID_ATTRIBUTE_NAME", "ROOT_ATTRIBUTE_NAME", "ATTRIBUTE_NAME_START_CHAR",
    "ATTRIBUTE_NAME_CHAR", "properties", "shouldSetAttribute", "getAttributeName",
    "getAttributeNamespace", "getMutationMethod", "getPropertyInfo",
    "shouldAttributeAcceptBooleanValue", "isReservedProp", "injection" }

ID_ATTRIBUTE_NAME == <<100,97,116,97,45,114,101,97,99,116,105,100>>  \* 'data-reactid'
ROOT_ATTRIBUTE_NAME == <<100,97,116,97,45,114,101,97,99,116,114,111,111,116>>  \* 'data-reactroot'

isReservedProp(name) == name \in RESERVED_PROPS

getPropertyInfo(props, name) ==
  LET has == HasOwnProperty(props, name)
  IN  IF IsThrow(has) THEN has
      ELSE IF has.v.b THEN Return(props[name])
      ELSE Return(JSNull)

shouldAttributeAcceptBooleanValue(props, name) ==
  IF isReservedProp(name)
    THEN Return(JSBool(TRUE))
    ELSE
      LET propertyInfo == getPropertyInfo(props, name)
          prefix == Slice(toLowerCase(name), 0, 5)
      IN  IF IsThrow(propertyInfo) THEN propertyInfo
          ELSE IF propertyInfo.v # JSNull
            THEN Return(JSBool(propertyInfo.v.hasBooleanValue
                               \/ propertyInfo.v.hasStringBooleanValue
                               \/ propertyInfo.v.hasOverloadedBooleanValue))
          ELSE Return(JSBool(prefix = <<100,97,116,97,45>> \/ prefix = <<97,114,105,97,45>>))

(* shouldSetAttribute with the event-name test for the lowercase 'on' only. *)
shouldSetAttributeLowercaseOn(props, name, value) ==
  IF isReservedProp(name)
    THEN Return(JSBool(FALSE))
  ELSE IF Len(name) >= 2 /\ name[1] = 111 /\ name[2] = 110
    THEN Return(JSBool(FALSE))
  ELSE IF value = JSNull
    THEN Return(JSBool(TRUE))
  ELSE IF value.t = "boolean"
    THEN shouldAttributeAcceptBooleanValue(props, name)
  ELSE IF value.t \in {"undefined", "number", "string", "object"}
    THEN Return(JSBool(TRUE))
  ELSE Return(JSBool(FALSE))

shouldSetAttribute(props, name, value) ==
  IF isReservedProp(name)
    THEN Return(JSBool(FALSE))
  ELSE IF Len(name) >= 2 /\ name[1] \in {111, 79} /\ name[2] \in {110, 78}
    THEN Return(JSBool(FALSE))
  ELSE IF value = JSNull
    THEN Return(JSBool(TRUE))
  ELSE IF value.t = "boolean"
    THEN shouldAttributeAcceptBooleanValue(props, name)
  ELSE IF value.t \in {"undefined", "number", "string", "object"}
    THEN Return(JSBool(TRUE))
  ELSE Return(JSBool(FALSE))

(* getAttributeName without the table of irregular names. *)
getAttributeNameLowercased(propName) ==
  Return(JSString(toLowerCase(propName)))

getAttributeName(propName) ==
  LET has == HasOwnProperty(attributeNames, propName)
  IN  IF IsThrow(has) THEN has
      ELSE IF has.v.b THEN Return(JSString(attributeNames[propName]))
      ELSE Return(JSString(toLowerCase(propName)))

XML_NAMESPACE == "http://www.w3.org/XML/1998/namespace"
XLINK_NAMESPACE == "http://www.w3.org/1999/xlink"

getAttributeNamespace(propName) ==
  IF propName \in { <<120,109,108,66,97,115,101>>, <<120,109,108,76,97,110,103>>, <<120,109,108,83,112,97,99,101>> }
    THEN Return([t |-> "string", uri |-> XML_NAMESPACE])
  ELSE IF propName \in { <<120,108,105,110,107,65,99,116,117,97,116,101>>, <<120,108,105,110,107,65,114,99,114,111,108,101>>, <<120,108,105,110,107,72,114,101,102>>, <<120,108,105,110,107,82,111,108,101>>,
                         <<120,108,105,110,107,83,104,111,119>>, <<120,108,105,110,107,84,105,116,108,101>>, <<120,108,105,110,107,84,121,112,101>> }
    THEN Return([t |-> "string", uri |-> XLINK_NAMESPACE])
  ELSE Return(JSNull)

(* The function getMutationMethod returns, by name; null otherwise. *)
getMutationMethod(propName) ==
  IF propName = <<118,97,108,117,101>>
    THEN Return([t |-> "function", fn |-> "setDOMValueAttribute"])
    ELSE Return(JSNull)

-----------------------------------------------------------------------------
(* What DOMMarkupOperations.js calls and neither file defines.             *)

Falsy(value) ==
  \/ value \in {JSNull, JSUndefined, JSBool(FALSE), JSNumber(0), JSNaN}
  \/ value = JSString(<<>>)

(* shouldIgnoreValue and getExpectedValueType as the design describes them. *)
shouldIgnoreValue(props, name, value) ==
  LET propertyInfo == getPropertyInfo(props, name)
  IN  IF IsThrow(propertyInfo) THEN propertyInfo
      ELSE IF value \in {JSNull, JSUndefined} THEN Return(JSBool(TRUE))
      ELSE IF propertyInfo.v = JSNull THEN Return(JSBool(FALSE))
      ELSE Return(JSBool(
             \/ (propertyInfo.v.hasBooleanValue \/ propertyInfo.v.hasNumericValue)
                  /\ Falsy(value)
             \/ propertyInfo.v.hasOverloadedBooleanValue /\ value = JSBool(FALSE)))

getExpectedValueType(props, name) ==
  LET propertyInfo == getPropertyInfo(props, name)
  IN  IF IsThrow(propertyInfo) THEN propertyInfo
      ELSE IF propertyInfo.v = JSNull THEN Return(JSUndefined)
      ELSE IF propertyInfo.v.hasBooleanValue \/ propertyInfo.v.hasStringBooleanValue
        THEN Return(JSString(<<98,111,111,108,101,97,110>>))
      ELSE IF propertyInfo.v.hasOverloadedBooleanValue
        THEN Return(JSString(<<111,118,101,114,108,111,97,100,101,100,66,111,111,108,101,97,110>>))
      ELSE Return(JSUndefined)

RECURSIVE Digits(_)
Digits(n) == IF n < 10 THEN <<48 + n>> ELSE Digits(n \div 10) \o <<48 + (n % 10)>>

(* String(value) for the values of the model. *)
ToText(value) ==
  CASE value = JSNull -> <<110,117,108,108>>
    [] value = JSUndefined -> <<117,110,100,101,102,105,110,101,100>>
    [] value = JSBool(TRUE) -> <<116,114,117,101>>
    [] value = JSBool(FALSE) -> <<102,97,108,115,101>>
    [] value = JSNaN -> <<78,97,78>>
    [] value.t = "number" ->
         IF value.n < 0 THEN <<45>> \o Digits(0 - value.n) ELSE Digits(value.n)
    [] value.t = "string" -> value.s
    [] value.t = "object" -> <<91,111,98,106,101,99,116,32,79,98,106,101,99,116,93>>
    [] value.t = "function" -> <<102,117,110,99,116,105,111,110,32,40,41,32,123,125>>  \* 'function () {}'
    [] OTHER -> <<83,121,109,98,111,108,40,41>>

EscapeChar(c) ==
  CASE c = 34 -> <<38,113,117,111,116,59>>
    [] c = 38 -> <<38,97,109,112,59>>
    [] c = 39 -> <<38,35,120,50,55,59>>
    [] c = 60 -> <<38,108,116,59>>
    [] c = 62 -> <<38,103,116,59>>
    [] OTHER -> <<c>>

RECURSIVE EscapeFrom(_, _)
EscapeFrom(s, i) ==
  IF i > Len(s) THEN <<>> ELSE EscapeChar(s[i]) \o EscapeFrom(s, i + 1)

(* The escaping collaborator: a pure, total function to a quoted literal. *)
quoteAttributeValueForBrowser(value) == <<34>> \o EscapeFrom(ToText(value), 1) \o <<34>>

-----------------------------------------------------------------------------
(* DOMMarkupOperations.js                                                  *)

InRange(c, lo, hi) == c >= lo /\ c <= hi

(* [ATTRIBUTE_NAME_START_CHAR] *)
IsNameStartChar(c) ==
  \/ c = 58 \/ InRange(c, 65, 90) \/ c = 95 \/ InRange(c, 97, 122)
  \/ InRange(c, 192, 214) \/ InRange(c, 216, 246) \/ InRange(c, 248, 767)
  \/ InRange(c, 880, 893) \/ InRange(c, 895, 8191) \/ InRange(c, 8204, 8205)
  \/ InRange(c, 8304, 8591) \/ InRange(c, 11264, 12271) \/ InRange(c, 12289, 55295)
  \/ InRange(c, 63744, 64975) \/ InRange(c, 65008, 65533)

(* [ATTRIBUTE_NAME_CHAR] *)
IsNameChar(c) ==
  \/ IsNameStartChar(c)
  \/ c = 45 \/ c = 46 \/ InRange(c, 48, 57) \/ c = 183
  \/ InRange(c, 768, 879) \/ InRange(c, 8255, 8256)

(* VALID_ATTRIBUTE_NAME_REGEX.test(attributeName) *)
ValidAttributeNameRegexTest(attributeName) ==
  /\ Len(attributeName) >= 1
  /\ IsNameStartChar(attributeName[1])
  /\ \A i \in 2..Len(attributeName) : IsNameChar(attributeName[i])

(* isAttributeNameSafe on the two caches: the caches it leaves, whether    *)
(* the regex ran, and the outcome.                                         *)
isAttributeNameSafe(validated, illegal, attributeName) ==
  LET inValidated == HasOwnProperty(validated, attributeName)
      inIllegal == HasOwnProperty(illegal, attributeName)
      same == [validated |-> validated, illegal |-> illegal, tested |-> FALSE]
  IN  IF IsThrow(inValidated) THEN same @@ [outcome |-> inValidated]
      ELSE IF inValidated.v.b THEN same @@ [outcome |-> Return(JSBool(TRUE))]
      ELSE IF IsThrow(inIllegal) THEN same @@ [outcome |-> inIllegal]
      ELSE IF inIllegal.v.b THEN same @@ [outcome |-> Return(JSBool(FALSE))]
      ELSE IF ValidAttributeNameRegexTest(attributeName)
        THEN [validated |-> PutOwn(validated, attributeName, TRUE),
              illegal |-> illegal, tested |-> TRUE,
              outcome |-> Return(JSBool(TRUE))]
      ELSE [validated |-> validated,
            illegal |-> PutOwn(illegal, attributeName, TRUE), tested |-> TRUE,
            outcome |-> Return(JSBool(FALSE))]

createMarkupForID(id) ==
  Return(JSString(ID_ATTRIBUTE_NAME \o <<61>> \o quoteAttributeValueForBrowser(id)))

createMarkupForRoot == Return(JSString(ROOT_ATTRIBUTE_NAME \o <<61,34,34>>))

createMarkupForProperty(props, name, value) ==
  LET set == shouldSetAttribute(props, name, value)
      ignore == IF "shouldIgnoreValue" \in DOMPropertyMembers
                  THEN shouldIgnoreValue(props, name, value)
                  ELSE Throw(TypeError)
      attributeName == getAttributeName(name)
      expectedType == IF "getExpectedValueType" \in DOMPropertyMembers
                        THEN getExpectedValueType(props, name)
                        ELSE Throw(TypeError)
  IN  IF IsThrow(set) THEN set
      ELSE IF ~set.v.b THEN Return(JSNull)
      ELSE IF IsThrow(ignore) THEN ignore
      ELSE IF ignore.v.b THEN Return(JSNull)
      ELSE IF IsThrow(attributeName) THEN attributeName
      ELSE IF IsThrow(expectedType) THEN expectedType
      ELSE IF \/ expectedType.v = JSString(<<98,111,111,108,101,97,110>>)
              \/ expectedType.v = JSString(<<111,118,101,114,108,111,97,100,101,100,66,111,111,108,101,97,110>>) /\ value = JSBool(TRUE)
        THEN Return(JSString(attributeName.v.s \o <<61,34,34>>))
      ELSE Return(JSString(attributeName.v.s \o <<61>>
                           \o quoteAttributeValueForBrowser(value)))

createMarkupForCustomAttribute(validated, illegal, name, value) ==
  LET safe == isAttributeNameSafe(validated, illegal, name)
      markup ==
        IF IsThrow(safe.outcome) THEN safe.outcome
        ELSE IF ~safe.outcome.v.b \/ value \in {JSNull, JSUndefined}
          THEN Return(JSString(<<>>))
        ELSE Return(JSString(name \o <<61>> \o quoteAttributeValueForBrowser(value)))
  IN  [validated |-> safe.validated, illegal |-> safe.illegal,
       tested |-> safe.tested, outcome |-> markup]

-----------------------------------------------------------------------------
(* setDOMValueAttribute, the mutation method of 'value'. A node is its     *)
(* type, its value attribute (null: none), its validity (undefined where   *)
(* the host has no constraint validation, else its badInput flag) and      *)
(* whether it is ownerDocument.activeElement.                              *)

(* '' + value *)
StringConcat(value) ==
  IF value.t = "symbol" THEN Throw(TypeError) ELSE Return(JSString(ToText(value)))

(* setDOMValueAttribute without the test of ownerDocument.activeElement. *)
setDOMValueAttributeWhileActive(n, value) ==
  LET text == StringConcat(value)
      assigned == IF IsThrow(text)
                    THEN [node |-> n, outcome |-> text]
                    ELSE [node |-> [n EXCEPT !.value = text.v],
                          outcome |-> Return(JSUndefined)]
  IN  IF value \in {JSNull, JSUndefined}
        THEN [node |-> [n EXCEPT !.value = JSNull], outcome |-> Return(JSUndefined)]
      ELSE IF n.type # "number" \/ n.value = JSNull
        THEN assigned
      ELSE IF n.validity # JSUndefined /\ ~n.validity.badInput
        THEN assigned
      ELSE [node |-> n, outcome |-> Return(JSUndefined)]

setDOMValueAttribute(n, value) ==
  LET text == StringConcat(value)
      assigned == IF IsThrow(text)
                    THEN [node |-> n, outcome |-> text]
                    ELSE [node |-> [n EXCEPT !.value = text.v],
                          outcome |-> Return(JSUndefined)]
  IN  IF value \in {JSNull, JSUndefined}
        THEN [node |-> [n EXCEPT !.value = JSNull], outcome |-> Return(JSUndefined)]
      ELSE IF n.type # "number" \/ n.value = JSNull
        THEN assigned
      ELSE IF /\ n.validity # JSUndefined
              /\ ~n.validity.badInput
              /\ ~n.active
        THEN assigned
      ELSE [node |-> n, outcome |-> Return(JSUndefined)]

-----------------------------------------------------------------------------
(* Bounds and the inputs drawn within them.                                *)

MaxConfigLen == 2
MaxRegexTests == 2

Names ==
  { <<99,104,105,108,100,114,101,110>>,        \* 'children', reserved
    <<115,116,121,108,101>>,           \* 'style', reserved
    <<111,110,67,108,105,99,107>>,         \* 'onClick'
    <<79,110>>,              \* 'On'
    <<111,78,101>>,             \* 'oNe'
    <<79,78,67,69>>,            \* 'ONCE'
    <<111>>,               \* 'o'
    <<>>,               \* ''
    <<100,97,116,97,45,120>>,          \* 'data-x'
    <<65,82,73,65,45,120>>,          \* 'ARIA-x'
    <<97,117,116,111,82,101,118,101,114,115,101>>,     \* 'autoReverse', injected at load with HAS_STRING_BOOLEAN_VALUE
    <<99,108,105,112,80,97,116,104>>,        \* 'clipPath', injected at load with 0
    <<99,108,97,115,115,78,97,109,101>>,       \* 'className'
    <<116,105,116,108,101>>,           \* 'title'
    <<99,104,101,99,107,101,100>>,         \* 'checked'
    <<109,117,108,116,105,112,108,101>>,        \* 'multiple'
    hasOwnPropertyName,
    protoName }

Values ==
  { JSNull, JSUndefined, JSBool(TRUE), JSBool(FALSE), JSNumber(0), JSNumber(1), JSNaN,
    JSString(<<>>),      \* ''
    JSString(<<118>>),      \* 'v'
    JSString(<<97,34,98>>),    \* 'a"b'
    JSObject, JSFunction, JSSymbol }

ConfigNames ==
  { <<99,104,101,99,107,101,100>>,      \* 'checked'
    <<109,117,108,116,105,112,108,101>>,     \* 'multiple'
    <<97,117,116,111,82,101,118,101,114,115,101>>,  \* 'autoReverse', injected at load
    hasOwnPropertyName }

(* Bitmasks: one value mode each (the first with MUST_USE_PROPERTY), and   *)
(* two value modes at once.                                                *)
Masks ==
  { MUST_USE_PROPERTY + HAS_BOOLEAN_VALUE,
    HAS_POSITIVE_NUMERIC_VALUE,
    HAS_OVERLOADED_BOOLEAN_VALUE,
    HAS_POSITIVE_NUMERIC_VALUE + HAS_BOOLEAN_VALUE,
    HAS_BOOLEAN_VALUE + HAS_OVERLOADED_BOOLEAN_VALUE }

ConfigEntries == [name : ConfigNames, mask : Masks]

(* A config's Properties: entries in enumeration order, a key at most once. *)
ConfigsOfLen(len) ==
  { c \in [1..len -> ConfigEntries] :
      \A i, j \in 1..len : i # j => c[i].name # c[j].name }

Configs == UNION { ConfigsOfLen(len) : len \in 0..MaxConfigLen }

(* The configs and names that change the registry and the caches while the *)
(* name resolver is called.                                                *)
ResolverConfigs ==
  { <<[name |-> n, mask |-> HAS_BOOLEAN_VALUE]>> :
      n \in { <<99,108,97,115,115,78,97,109,101>>, <<120,108,105,110,107,72,114,101,102>>, hasOwnPropertyName } }

ResolverCacheNames == { hasOwnPropertyName, <<100,97,116,97,45,102,111,111>>, <<>> }

CacheNames ==
  { <<100,97,116,97,45,102,111,111>>,    \* 'data-foo'
    <<49,98,97,100,45,110,97,109,101>>,   \* '1bad-name'
    <<120,34,121>>,         \* 'x"y'
    <<>>,           \* ''
    <<233>>,        \* U+00E9
    <<215>>,        \* U+00D7, the multiplication sign
    hasOwnPropertyName,
    protoName }

AttributeNameInputs ==
  { Camelize(svgAttributeNames[i]) : i \in 1..Len(svgAttributeNames) }
    \cup { svgAttributeNames[i] : i \in 1..Len(svgAttributeNames) }
    \cup DOMAIN attributeNamesLiteral
    \cup Names
    \cup { <<117,110,107,110,111,119,110,80,114,111,112>>,  \* 'unknownProp'
           <<67,76,65,83,83,78,65,77,69>>,    \* 'CLASSNAME'
           <<99,108,97,115,115,110,97,109,101>>,    \* 'classname'
           <<72,116,109,108,70,111,114>>,      \* 'HtmlFor'
           <<120,108,105,110,107,72,82,69,70>>,    \* 'xlinkHREF'
           <<201, 116>> }   \* U+00C9 't'

Nodes ==
  [ type : {"number", "text"},
    value : {JSNull, JSString(<<>>), JSString(<<49>>)},
    validity : {JSUndefined, [badInput |-> FALSE], [badInput |-> TRUE]},
    active : BOOLEAN ]

(* The values the mutation method is called with: its caller calls it only *)
(* when shouldSetAttribute('value', value) holds.                          *)
NodeValues ==
  { JSNull, JSUndefined, JSNumber(1), JSNumber(12), JSString(<<>>), JSString(<<49>>),
    JSString(<<49,46,53,48>>), JSObject }

-----------------------------------------------------------------------------
(* The state after both modules have loaded.                               *)

NoVerdict == [k |-> "none"]

(* The caller's position: between two calls (Idle), or holding the record  *)
(* of the call that has just ended. Calls are synchronous and do not       *)
(* overlap.                                                                *)
Idle == [op |-> "idle"]

Init ==
  /\ properties = LoadedProperties
  /\ validatedAttributeNameCache = EmptyObject
  /\ illegalAttributeNameCache = EmptyObject
  /\ node = [type |-> "text", value |-> JSNull, validity |-> [badInput |-> FALSE],
             active |-> FALSE]
  /\ regexTests = [n \in CacheNames |-> 0]
  /\ firstVerdict = [n \in CacheNames |-> NoVerdict]
  /\ call = Idle

cacheVars == <<validatedAttributeNameCache, illegalAttributeNameCache, regexTests,
               firstVerdict>>

-----------------------------------------------------------------------------
(* One action per operation.                                               *)

InjectDOMPropertyConfig(config) ==
  /\ call = Idle
  /\ LET r == injectDOMPropertyConfig(properties, config)
     IN  /\ properties' = r.properties
         /\ call' = [op |-> "injectDOMPropertyConfig", config |-> config,
                     outcome |-> r.outcome]
         /\ UNCHANGED <<cacheVars, node>>

GetPropertyInfo(name) ==
  /\ call = Idle
  /\ call' = [op |-> "getPropertyInfo", name |-> name,
              outcome |-> getPropertyInfo(properties, name)]
  /\ UNCHANGED <<properties, cacheVars, node>>

ShouldAttributeAcceptBooleanValue(name) ==
  /\ call = Idle
  /\ call' = [op |-> "shouldAttributeAcceptBooleanValue", name |-> name,
              outcome |-> shouldAttributeAcceptBooleanValue(properties, name)]
  /\ UNCHANGED <<properties, cacheVars, node>>

ShouldSetAttribute(name, value) ==
  /\ call = Idle
  /\ call' = [op |-> "shouldSetAttribute", name |-> name, value |-> value,
              outcome |-> shouldSetAttribute(properties, name, value)]
  /\ UNCHANGED <<properties, cacheVars, node>>

GetAttributeName(name) ==
  /\ call = Idle
  /\ call' = [op |-> "getAttributeName", name |-> name,
              outcome |-> getAttributeName(name)]
  /\ UNCHANGED <<properties, cacheVars, node>>

GetAttributeNamespace(name) ==
  /\ call = Idle
  /\ call' = [op |-> "getAttributeNamespace", name |-> name,
              outcome |-> getAttributeNamespace(name)]
  /\ UNCHANGED <<properties, cacheVars, node>>

CreateMarkupForID(id) ==
  /\ call = Idle
  /\ call' = [op |-> "createMarkupForID", value |-> id,
              outcome |-> createMarkupForID(id)]
  /\ UNCHANGED <<properties, cacheVars, node>>

CreateMarkupForRoot ==
  /\ call = Idle
  /\ call' = [op |-> "createMarkupForRoot", outcome |-> createMarkupForRoot]
  /\ UNCHANGED <<properties, cacheVars, node>>

CreateMarkupForProperty(name, value) ==
  /\ call = Idle
  /\ call' = [op |-> "createMarkupForProperty", name |-> name, value |-> value,
              outcome |-> createMarkupForProperty(properties, name, value)]
  /\ UNCHANGED <<properties, cacheVars, node>>

(* The caches and the two records of the calls, after a call of            *)
(* isAttributeNameSafe that left r.                                        *)
CachesAfter(name, r) ==
  /\ validatedAttributeNameCache' = r.validated
  /\ illegalAttributeNameCache' = r.illegal
  /\ regexTests' = [regexTests EXCEPT ![name] = @ + (IF r.tested THEN 1 ELSE 0)]
  /\ firstVerdict' = [firstVerdict EXCEPT ![name] = IF @ = NoVerdict THEN r.outcome ELSE @]

IsAttributeNameSafe(name) ==
  /\ call = Idle
  /\ LET r == isAttributeNameSafe(validatedAttributeNameCache, illegalAttributeNameCache,
                                  name)
     IN  /\ regexTests[name] < MaxRegexTests
         /\ CachesAfter(name, r)
         /\ call' = [op |-> "isAttributeNameSafe", name |-> name, outcome |-> r.outcome]
         /\ UNCHANGED <<properties, node>>

CreateMarkupForCustomAttribute(name, value) ==
  /\ call = Idle
  /\ LET r == createMarkupForCustomAttribute(validatedAttributeNameCache,
                                             illegalAttributeNameCache, name, value)
         safe == isAttributeNameSafe(validatedAttributeNameCache,
                                     illegalAttributeNameCache, name)
     IN  /\ regexTests[name] < MaxRegexTests
         /\ CachesAfter(name, safe)
         /\ call' = [op |-> "createMarkupForCustomAttribute", name |-> name,
                     value |-> value, outcome |-> r.outcome]
         /\ UNCHANGED <<properties, node>>

(* getMutationMethod('value')(node, value) *)
SetDOMValueAttribute(value) ==
  /\ call = Idle
  /\ LET method == getMutationMethod(<<118,97,108,117,101>>)
         r == setDOMValueAttribute(node, value)
     IN  /\ method.v # JSNull
         /\ node' = r.node
         /\ call' = [op |-> "setDOMValueAttribute", value |-> value, before |-> node,
                     outcome |-> r.outcome]
         /\ UNCHANGED <<properties, cacheVars>>

(* The host: another node is rendered, focus moves, the user types. *)
Mount(n) ==
  /\ call = Idle
  /\ node' = n
  /\ call' = Idle
  /\ UNCHANGED <<properties, cacheVars>>

Focus ==
  /\ call = Idle
  /\ ~node.active
  /\ node' = [node EXCEPT !.active = TRUE]
  /\ call' = Idle
  /\ UNCHANGED <<properties, cacheVars>>

Blur ==
  /\ call = Idle
  /\ node.active
  /\ node' = [node EXCEPT !.active = FALSE]
  /\ call' = Idle
  /\ UNCHANGED <<properties, cacheVars>>

UserInput(bad) ==
  /\ call = Idle
  /\ node.validity # JSUndefined
  /\ node.active
  /\ node' = [node EXCEPT !.validity = [badInput |-> bad]]
  /\ call' = Idle
  /\ UNCHANGED <<properties, cacheVars>>

(* The caller takes the outcome of the call and goes on. *)
Continue ==
  /\ call # Idle
  /\ call' = Idle
  /\ UNCHANGED <<properties, cacheVars, node>>

-----------------------------------------------------------------------------
(* Specifications: the registry and the value classifier (Spec), the name  *)
(* validator and custom attributes (SpecCache), the name resolver while    *)
(* registry and caches change (SpecNames), the mutation method (SpecNode). *)

Next ==
  \/ \E config \in Configs : InjectDOMPropertyConfig(config)
  \/ \E name \in Names : GetPropertyInfo(name)
  \/ \E name \in Names : ShouldAttributeAcceptBooleanValue(name)
  \/ \E name \in Names, value \in Values : ShouldSetAttribute(name, value)
  \/ \E name \in Names, value \in Values : CreateMarkupForProperty(name, value)
  \/ \E id \in Values : CreateMarkupForID(id)
  \/ CreateMarkupForRoot
  \/ Continue

Spec == Init /\ [][Next]_vars

NextCache ==
  \/ \E name \in CacheNames : IsAttributeNameSafe(name)
  \/ \E name \in CacheNames, value \in Values : CreateMarkupForCustomAttribute(name, value)
  \/ Continue

SpecCache == Init /\ [][NextCache]_vars

NextNames ==
  \/ \E name \in AttributeNameInputs : GetAttributeName(name)
  \/ \E name \in AttributeNameInputs : GetAttributeNamespace(name)
  \/ \E config \in ResolverConfigs : InjectDOMPropertyConfig(config)
  \/ \E name \in ResolverCacheNames : IsAttributeNameSafe(name)
  \/ Continue

SpecNames == Init /\ [][NextNames]_vars

NextNode ==
  \/ \E value \in NodeValues : SetDOMValueAttribute(value)
  \/ \E n \in Nodes : Mount(n)
  \/ Focus
  \/ Blur
  \/ \E bad \in BOOLEAN : UserInput(bad)
  \/ Continue

SpecNode == Init /\ [][NextNode]_vars

-----------------------------------------------------------------------------
(* The claims.                                                             *)

MarkupOps ==
  { "createMarkupForID", "createMarkupForRoot", "createMarkupForProperty",
    "createMarkupForCustomAttribute" }

(* C1: every markup-generation call returns normally, with a markup string *)
(* or its sentinel (null for createMarkupForProperty, '' for               *)
(* createMarkupForCustomAttribute): none ends in a thrown exception,       *)
(* whatever the name, the value and the registry.                          *)
C1_MarkupNeverThrows ==
  call.op \in MarkupOps =>
    /\ call.outcome.k = "return"
    /\ \/ call.outcome.v.t = "string"
       \/ call.op = "createMarkupForProperty" /\ call.outcome.v = JSNull

(* What C2 calls suppressible and boolean-typed, on the descriptor of the  *)
(* name (null: none).                                                      *)
Suppressible(info, value) ==
  \/ value \in {JSNull, JSUndefined}
  \/ /\ info # JSNull
     /\ \/ (info.hasBooleanValue \/ info.hasNumericValue) /\ Falsy(value)
        \/ info.hasOverloadedBooleanValue /\ value = JSBool(FALSE)

BarePresence(info, value) ==
  /\ info # JSNull
  /\ \/ info.hasBooleanValue \/ info.hasStringBooleanValue
     \/ info.hasOverloadedBooleanValue /\ value = JSBool(TRUE)

DescriptorOf(props, name) == IF name \in DOMAIN props THEN props[name] ELSE JSNull

(* C2: createMarkupForProperty(name, value) is null when                   *)
(* shouldSetAttribute(name, value) is false or the value is suppressible;  *)
(* otherwise it is attr="" for a boolean-typed property, or an overloaded- *)
(* boolean one with value true, and attr=<quoted value> in every other     *)
(* case, attr being getAttributeName(name).                                *)
C2_MarkupForProperty ==
  call.op = "createMarkupForProperty" =>
    LET info == DescriptorOf(properties, call.name)
        set == shouldSetAttribute(properties, call.name, call.value)
        attr == getAttributeName(call.name).v.s
    IN  IF set = Return(JSBool(FALSE)) \/ Suppressible(info, call.value)
          THEN call.outcome = Return(JSNull)
        ELSE IF BarePresence(info, call.value)
          THEN call.outcome = Return(JSString(attr \o <<61,34,34>>))
        ELSE call.outcome
               = Return(JSString(attr \o <<61>>
                                 \o quoteAttributeValueForBrowser(call.value)))

MultiMode(mask) ==
  B2N(BitAnd(mask, HAS_BOOLEAN_VALUE) = HAS_BOOLEAN_VALUE)
    + B2N(BitAnd(mask, HAS_NUMERIC_VALUE) = HAS_NUMERIC_VALUE)
    + B2N(BitAnd(mask, HAS_OVERLOADED_BOOLEAN_VALUE) = HAS_OVERLOADED_BOOLEAN_VALUE) > 1

Registered(props, name) ==
  /\ getPropertyInfo(props, name).k = "return"
  /\ getPropertyInfo(props, name).v # JSNull

(* C3: an injection whose names are all absent from the registry and whose *)
(* bitmasks all keep the value modes exclusive never fails and registers   *)
(* every one of its names; an injection that holds a name already in the   *)
(* registry always fails with the 'already been injected' error.           *)
C3_Injection ==
  [][ call'.op = "injectDOMPropertyConfig" =>
        LET config == call'.config
            absent(i) == config[i].name \notin DOMAIN properties
        IN  /\ (\A i \in DOMAIN config : absent(i) /\ ~MultiMode(config[i].mask))
                 => /\ call'.outcome.k = "return"
                    /\ \A i \in DOMAIN config : Registered(properties', config[i].name)
            /\ (\E i \in DOMAIN config : ~absent(i))
                 => call'.outcome = Throw(InvariantAlreadyInjected) ]_vars

(* C4: an injection that holds an entry with more than one of the boolean, *)
(* numeric (also through HAS_POSITIVE_NUMERIC_VALUE) and overloaded-       *)
(* boolean flags fails; so every descriptor in the registry has at most    *)
(* one of hasBooleanValue, hasNumericValue, hasOverloadedBooleanValue, and *)
(* hasPositiveNumericValue only with hasNumericValue.                      *)
C4_ModesExclusive ==
  /\ \A name \in DOMAIN properties :
       /\ B2N(properties[name].hasBooleanValue) + B2N(properties[name].hasNumericValue)
            + B2N(properties[name].hasOverloadedBooleanValue) <= 1
       /\ properties[name].hasPositiveNumericValue => properties[name].hasNumericValue
  /\ call.op = "injectDOMPropertyConfig"
       /\ (\E i \in DOMAIN call.config : MultiMode(call.config[i].mask))
       => call.outcome.k = "throw"

C4_Witness ==
  /\ call.op = "injectDOMPropertyConfig"
  /\ Len(call.config) = 2
  /\ ~MultiMode(call.config[1].mask)
  /\ call.config[1].name \in DOMAIN properties
  /\ call.config[2].mask = HAS_POSITIVE_NUMERIC_VALUE + HAS_BOOLEAN_VALUE
  /\ call.outcome = Throw(InvariantCombination)

(* shouldSetAttribute as C5 states it, onName telling whether the name is  *)
(* one of those refused as an event handler's.                             *)
ShouldSetAttributeAsClaimed(onName, props, name, value) ==
  IF onName \/ name \in RESERVED_PROPS \/ value.t \in {"function", "symbol"}
    THEN Return(JSBool(FALSE))
  ELSE IF value.t = "boolean"
    THEN shouldAttributeAcceptBooleanValue(props, name)
  ELSE Return(JSBool(TRUE))

(* The first two characters are 'on' or 'On'. *)
OnOrOn(name) == Len(name) >= 2 /\ SubSeq(name, 1, 2) \in { <<111,110>>, <<79,110>> }

(* The first two characters are 'on', 'On', 'oN' or 'ON'. *)
OnAnyCase(name) == Len(name) >= 2 /\ SubSeq(name, 1, 2) \in { <<111,110>>, <<79,110>>, <<111,78>>, <<79,78>> }

(* C5 as stated: shouldSetAttribute(name, value) is false for a name whose *)
(* first two characters are 'on' or 'On', for a reserved name and for a    *)
(* function or symbol value; for any other name it is true for null,       *)
(* undefined, number, string and object values, and                        *)
(* shouldAttributeAcceptBooleanValue(name) for a boolean value.            *)
C5_AsStated ==
  call.op = "shouldSetAttribute" =>
    call.outcome = ShouldSetAttributeAsClaimed(OnOrOn(call.name), properties, call.name,
                                               call.value)

(* C5, amended: the same, the names refused being those whose first two    *)
(* characters are 'on' in any letter case: 'on', 'On', 'oN' or 'ON'.       *)
C5_ShouldSetAttribute ==
  call.op = "shouldSetAttribute" =>
    call.outcome = ShouldSetAttributeAsClaimed(OnAnyCase(call.name), properties, call.name,
                                               call.value)

C5_Witness ==
  /\ call.op = "shouldSetAttribute"
  /\ call.name = <<79,78,67,69>>
  /\ call.value = JSString(<<118>>)
  /\ call.outcome = Return(JSBool(FALSE))

(* C6: every call of isAttributeNameSafe with a name returns the verdict   *)
(* of the first call with that name, which is the regex test of the name,  *)
(* and the regex test runs at most once for a name.                        *)
C6_CacheConsistent ==
  /\ call.op = "isAttributeNameSafe" =>
       /\ call.outcome = firstVerdict[call.name]
       /\ call.outcome = Return(JSBool(ValidAttributeNameRegexTest(call.name)))
  /\ \A name \in CacheNames : regexTests[name] <= 1

(* C7: createMarkupForCustomAttribute(name, value) is '' when the name     *)
(* fails the XML-Name test or the value is null or undefined, and          *)
(* otherwise the name as given, '=' and the quoted value, in any state of  *)
(* the caches.                                                             *)
C7_CustomAttribute ==
  call.op = "createMarkupForCustomAttribute" =>
    call.outcome =
      IF ~ValidAttributeNameRegexTest(call.name) \/ call.value \in {JSNull, JSUndefined}
        THEN Return(JSString(<<>>))
        ELSE Return(JSString(call.name \o <<61>>
                             \o quoteAttributeValueForBrowser(call.value)))

(* Some of the irregular names, written out. *)
IrregularNames ==
  ( <<99,108,97,115,115,78,97,109,101>> :> <<99,108,97,115,115>>                \* className -> class
    @@ <<104,116,109,108,70,111,114>> :> <<102,111,114>>                 \* htmlFor -> for
    @@ <<104,116,116,112,69,113,117,105,118>> :> <<104,116,116,112,45,101,113,117,105,118>>        \* httpEquiv -> http-equiv
    @@ <<97,99,99,101,112,116,67,104,97,114,115,101,116>> :> <<97,99,99,101,112,116,45,99,104,97,114,115,101,116>>  \* acceptCharset -> accept-charset
    @@ <<99,108,105,112,80,97,116,104>> :> <<99,108,105,112,45,112,97,116,104>>          \* clipPath -> clip-path
    @@ <<120,108,105,110,107,72,114,101,102>> :> <<120,108,105,110,107,58,104,114,101,102>>        \* xlinkHref -> xlink:href
    @@ <<120,109,108,110,115,88,108,105,110,107>> :> <<120,109,108,110,115,58,120,108,105,110,107>>      \* xmlnsXlink -> xmlns:xlink
    @@ <<104,111,114,105,122,65,100,118,88>> :> <<104,111,114,105,122,45,97,100,118,45,120>>       \* horizAdvX -> horiz-adv-x
    @@ <<112,97,110,111,115,101,45,49>> :> <<112,97,110,111,115,101,45,49>> )         \* panose-1 -> panose-1

(* C8: getAttributeName returns, for every name, its irregular mapping     *)
(* when it has one (the four aliases; each listed SVG attribute for its    *)
(* camelized form) and the lowercased name otherwise, whatever has been    *)
(* injected or cached.                                                     *)
C8_AttributeName ==
  call.op = "getAttributeName" =>
    LET listed == { i \in DOMAIN svgAttributeNames :
                      Camelize(svgAttributeNames[i]) = call.name }
    IN  /\ call.outcome.k = "return"
        /\ call.name \in DOMAIN IrregularNames
             => call.outcome.v = JSString(IrregularNames[call.name])
        /\ \A i \in listed : call.outcome.v = JSString(svgAttributeNames[i])
        /\ listed = {} /\ call.name \notin DOMAIN IrregularNames
             => call.outcome.v = JSString(toLowerCase(call.name))

C8_Witness ==
  /\ call.op = "getAttributeName"
  /\ call.name = <<99,108,97,115,115,78,97,109,101>>
  /\ call.outcome = Return(JSString(<<99,108,97,115,115>>))
  /\ <<99,108,97,115,115,78,97,109,101>> \in DOMAIN properties
  /\ properties[<<99,108,97,115,115,78,97,109,101>>].hasBooleanValue
  /\ hasOwnPropertyName \in DOMAIN validatedAttributeNameCache

(* The element reports no bad input: it has a validity state, and the      *)
(* state's badInput is false.                                              *)
ReportsNoBadInput(n) == n.validity # JSUndefined /\ ~n.validity.badInput

C10_EntriesKept ==
  [][ /\ \A name \in Names \cup ConfigNames :
           Registered(properties, name)
             => getPropertyInfo(properties', name) = getPropertyInfo(properties, name)
      /\ call'.op = "injectDOMPropertyConfig" /\ call'.outcome.k = "throw"
           => \E f \in DOMAIN call'.config :
                /\ \A i \in f..Len(call'.config) :
                     DescriptorOf(properties', call'.config[i].name)
                       = DescriptorOf(properties, call'.config[i].name)
                /\ \A i \in 1..(f - 1) : call'.config[i].name \in DOMAIN properties' ]_vars

=============================================================================
